---- MODULE Spec2Model ----
(***************************************************************************)
(* Model of packages/data-provider/src/index.ts: the react-admin data      *)
(* provider for nestjsx/crud back ends.                                    *)
(*                                                                         *)
(* JavaScript values are records [t |-> type, v |-> content] where the     *)
(* content is a sequence: the characters of a string, the digits of a      *)
(* number, the name of a File, the items of an array, the entries of an    *)
(* object.  Strings the code takes apart (filter keys and values) are      *)
(* sequences of characters, in which a run of letters may stand as one     *)
(* element; the characters "|", ".", "_" and the digits always stand alone. *)
(***************************************************************************)
EXTENDS Integers, Sequences, FiniteSets, TLC

VARIABLES
    paramsFilter,   \* composeFilter's argument: the leaves of a nested object
    filterOut,      \* what composeFilter returned or threw
    params,         \* the params object the caller holds and passes to a call
    supplied,       \* the params object as the caller built it
    op,             \* the provider method running, "none" when idle
    pc,             \* where the running call is suspended
    given,          \* the payload getParamsWithBase64Files was called on
    data,           \* the payload after the transformers: update's `data`
    reads,          \* FileReader reads of the call: status of each
    fields,         \* transformFileIntoBase64's promise for each upload field
    requests,       \* httpClient calls of the call, in the order issued
    result          \* the promise the method returned

vars == <<paramsFilter, filterOut, params, supplied, op, pc, given, data,
          reads, fields, requests, result>>

filterVars == <<paramsFilter, filterOut>>
callVars ==
    <<params, supplied, op, pc, given, data, reads, fields, requests, result>>

-----------------------------------------------------------------------------
(* Bounds of the model.                                                    *)

MaxDepth == 2    \* nesting depth of a filter object
MaxIds == 2      \* length of params.ids
MaxFields == 2   \* fields of an upload object
MaxReads == 2    \* files of an upload object that are read

-----------------------------------------------------------------------------
(* JavaScript values.                                                      *)

Undefined == [t |-> "undefined", v |-> <<>>]
Null == [t |-> "null", v |-> <<>>]
Bool(b) == [t |-> "boolean", v |-> <<b>>]
Num(digits) == [t |-> "number", v |-> digits]
NaN == [t |-> "number", v |-> <<"NaN">>]
Str(chars) == [t |-> "string", v |-> chars]
Arr(items) == [t |-> "array", v |-> items]

Digits == {"0", "1", "2", "3", "4", "5", "6", "7", "8", "9"}

\* a === b: NaN is not equal to itself; objects and arrays compare by identity,
\* which is what their content stands for
IsNaN(a) == a.t = "number" /\ a.v = <<"NaN">>
StrictEq(a, b) == a.t = b.t /\ a.v = b.v /\ ~IsNaN(a)

\* obj[k] of an object modelled as a function from its keys
Get(obj, k) == IF k \in DOMAIN obj THEN obj[k] ELSE Undefined

EmptyObject == [k \in {} |-> Undefined]

-----------------------------------------------------------------------------
(* Strings as sequences of characters.                                     *)

\* s.indexOf(pat, from), 1-based; 0 when pat does not occur
RECURSIVE IndexOf(_, _, _)
IndexOf(s, pat, from) ==
    IF from + Len(pat) - 1 > Len(s) THEN 0
    ELSE IF SubSeq(s, from, from + Len(pat) - 1) = pat THEN from
    ELSE IndexOf(s, pat, from + 1)

\* s.split(pat) for a non-empty string pat
RECURSIVE Split(_, _)
Split(s, pat) ==
    LET i == IndexOf(s, pat, 1) IN
    IF i = 0 THEN <<s>>
    ELSE <<SubSeq(s, 1, i - 1)>> \o Split(SubSeq(s, i + Len(pat), Len(s)), pat)

\* segs.join(sep)
RECURSIVE Join(_, _)
Join(segs, sep) ==
    IF segs = <<>> THEN <<>>
    ELSE IF Len(segs) = 1 THEN segs[1]
    ELSE segs[1] \o sep \o Join(Tail(segs), sep)

StartsWith(s, pat) == Len(s) >= Len(pat) /\ SubSeq(s, 1, Len(pat)) = pat
Includes(s, pat) == IndexOf(s, pat, 1) # 0

\* s.match(/^\d+$/) is not null
MatchesDigits(s) == Len(s) >= 1 /\ \A i \in 1..Len(s) : s[i] \in Digits

\* s.split(/\.(.+)/)[1]: what follows the first dot, when something follows it;
\* undefined when the pattern matches nowhere
SplitFirstDot(s) ==
    LET i == IndexOf(s, <<".">>, 1) IN
    IF i # 0 /\ i < Len(s) THEN Str(SubSeq(s, i + 1, Len(s))) ELSE Undefined

-----------------------------------------------------------------------------
(* composeFilter.  A nested filter object is the sequence of its leaves,   *)
(* each with the keys that lead to it; no leaf's path is a prefix of       *)
(* another's.                                                              *)

CondEquals == <<"$", "e", "q">>
CondContains == <<"$", "c", "o", "n", "t">>
CondIn == <<"$", "i", "n">>

\* fetchUtils.flattenObject: one key per leaf, the path joined with "."; a key
\* met again keeps its place and takes the later value (Object.assign)
RECURSIVE FlattenObject(_)
FlattenObject(leaves) ==
    IF leaves = <<>> THEN <<>>
    ELSE LET n == Len(leaves)
             rest == FlattenObject(SubSeq(leaves, 1, n - 1))
             key == Join(leaves[n].path, <<".">>)
             entry == [key |-> key, val |-> leaves[n].val]
         IN IF \E i \in 1..Len(rest) : rest[i].key = key
            THEN [i \in 1..Len(rest) |->
                     IF rest[i].key = key THEN entry ELSE rest[i]]
            ELSE Append(rest, entry)

\* lines 47-56: the operator of a key that states none
InferThrows(val) == val.t \notin {"number", "string"}

InferredOperator(val) ==
    IF val.t = "number" \/ MatchesDigits(val.v) THEN CondEquals ELSE CondContains

\* the normalization without its test for the "_" prefix
NormalizeFieldAnyPrefix(field) ==
    IF Includes(field, <<".">>) THEN SplitFirstDot(field) ELSE Str(field)

\* lines 58-60: the field name sent
NormalizeField(field) ==
    IF StartsWith(field, <<"_">>) /\ Includes(field, <<".">>)
    THEN SplitFirstDot(field)
    ELSE Str(field)

\* lines 43-61: the condition of one flattened key
FilterCondition(entry) ==
    LET splitKey == Split(entry.key, <<"|", "|">>)
        field == splitKey[1]
        stated == IF Len(splitKey) >= 2 THEN splitKey[2] ELSE <<>>
        ops == IF stated = <<>> THEN InferredOperator(entry.val) ELSE stated
    IN [field |-> NormalizeField(field), operator |-> ops, value |-> entry.val]

\* whether the key's operator is inferred (!ops)
OperatorInferred(key) ==
    LET splitKey == Split(key, <<"|", "|">>)
    IN Len(splitKey) < 2 \/ splitKey[2] = <<>>

Threw(error) == [ok |-> FALSE, error |-> error, conds |-> <<>>]
Returned(conds) == [ok |-> TRUE, error |-> "", conds |-> conds]

composeFilter(leaves) ==
    LET flatFilter == FlattenObject(leaves) IN
    IF \E i \in 1..Len(flatFilter) :
          OperatorInferred(flatFilter[i].key) /\ InferThrows(flatFilter[i].val)
    THEN Threw("TypeError")
    ELSE Returned([i \in 1..Len(flatFilter) |-> FilterCondition(flatFilter[i])])

-----------------------------------------------------------------------------
(* The filter objects composeFilter is applied to.                         *)

KeyNames == { <<"a">>, <<"_">>, <<"_", "a">> }
OperatorSuffixes == { <<>>, <<"|", "|">>, <<"|", "|", "$", "g", "t">> }

FilterValues ==
    { Num(<<"1">>), NaN, Str(<<"1", "2">>), Str(<<"1", "a">>), Str(<<>>),
      Str(<<"a">>), Bool("true"), Null, Arr(<<"a">>) }

KeyPaths == UNION { [1..d -> KeyNames] : d \in 1..MaxDepth }

\* the path with the operator suffix on its last key
WithSuffix(path, suffix) ==
    [i \in 1..Len(path) |-> IF i = Len(path) THEN path[i] \o suffix ELSE path[i]]

FirstLeaves ==
    { [path |-> WithSuffix(p, s), val |-> v] :
        p \in KeyPaths, s \in OperatorSuffixes, v \in FilterValues }

\* further leaves, under keys no first leaf uses
OtherLeaves ==
    { [path |-> << <<"b">> >>, val |-> Num(<<"7">>)],
      [path |-> << <<"b">>, <<"_", "c">> >>, val |-> Str(<<"x">>)] }

FilterObjects ==
    {<<>>} \cup { <<l>> : l \in FirstLeaves }
           \cup { <<l, m>> : l \in FirstLeaves, m \in OtherLeaves }

NotRun == Threw("not run")

InitFilter ==
    /\ paramsFilter \in FilterObjects
    /\ filterOut = NotRun

\* a call of composeFilter
ComposeFilterCall ==
    /\ filterOut = NotRun
    /\ filterOut' = composeFilter(paramsFilter)
    /\ UNCHANGED paramsFilter

\* the filter objects of the calls that follow the first
LaterFilters == {<<>>} \cup {<<l>> : l \in OtherLeaves}

\* the next filter object
ComposeFilterNext ==
    /\ filterOut # NotRun
    /\ paramsFilter' \in LaterFilters
    /\ filterOut' = NotRun

-----------------------------------------------------------------------------
(* Payloads.  params.data is a plain object, a function from its keys to   *)
(* values, or a FormData, whose entries are no own properties of it.       *)

ApiUrl == "http://localhost:3000"
Resource == "posts"
base64Key == "_base64Upload"
fileUploadKey == "_fileUpload"

PlainData(obj) == [form |-> FALSE, obj |-> obj]
FormData(entries) == [form |-> TRUE, obj |-> entries]

\* data[k] by destructuring: an own property
Own(d, k) == IF d.form THEN Undefined ELSE Get(d.obj, k)

\* const { [k]: x, ...rest } = obj
Omit(obj, ks) == [k \in DOMAIN obj \ ks |-> obj[k]]

\* { ...a, ...b }
Merge(a, b) ==
    [k \in DOMAIN a \cup DOMAIN b |-> IF k \in DOMAIN b THEN b[k] ELSE a[k]]

\* { rawFile: File }, as react-admin's file inputs give it
FileV(name) == [t |-> "file", v |-> <<name>>]
\* the File itself
RawFile(name) == [t |-> "rawfile", v |-> <<name>>]
\* reader.result of readAsDataURL
DataUrl(name) == Str(<<"data:", name>>)
\* the object under a reserved key: its entries [key, val] in key order
Upload(entries) == [t |-> "object", v |-> entries]

\* countDiff without its predicate: every field is sent
countDiffAll(o1, o2) == o1

\* lines 35-38: omitBy(o1, (v, k) => o2[k] === v)
countDiff(o1, o2) ==
    [k \in {k \in DOMAIN o1 : ~StrictEq(Get(o2, k), o1[k])} |-> o1[k]]

-----------------------------------------------------------------------------
(* Base64 mode, lines 72-106.                                              *)

\* the files transformFileIntoBase64 maps readFileAsDataUrl over
Items(val) == IF val.t = "array" THEN val.v ELSE <<val>>

\* lines 73-75: what readFileAsDataUrl reads rather than returns
NeedsRead(file) == file.t = "file"

\* the reads transformFileIntoBase64(val) starts
FieldReads(val) == {j \in 1..Len(Items(val)) : NeedsRead(Items(val)[j])}

\* the reads of the whole upload object: <<field, item>>
ReadIds(entries) ==
    UNION {{<<i, j>> : j \in FieldReads(entries[i].val)} : i \in 1..Len(entries)}

ReadError(i, j) == "read " \o ToString(i) \o "." \o ToString(j) \o " failed"

\* what readFileAsDataUrl's promise resolves to, or what it returns
readFileAsDataUrl(file) == IF NeedsRead(file) THEN DataUrl(file.v[1]) ELSE file

\* lines 85-91: the value transformFileIntoBase64's promise resolves to
transformFileIntoBase64(val) ==
    IF val.t = "array"
    THEN Arr([j \in 1..Len(val.v) |-> readFileAsDataUrl(val.v[j])])
    ELSE readFileAsDataUrl(val)

Pending == [st |-> "pending", err |-> ""]
Fulfilled == [st |-> "fulfilled", err |-> ""]
Rejected(err) == [st |-> "rejected", err |-> err]

\* the promises of transformFileIntoBase64 as the reads start
StartFields(entries) ==
    [i \in 1..Len(entries) |->
        IF FieldReads(entries[i].val) = {} THEN Fulfilled ELSE Pending]

\* the field's promise once a read of it has loaded: Promise.all is fulfilled
\* when every read has loaded
FieldAfterLoad(entries, flds, rds, i) ==
    IF flds[i].st = "pending" /\ \A j \in FieldReads(entries[i].val) : rds[<<i, j>>] = "ok"
    THEN Fulfilled
    ELSE flds[i]

\* the field's promise once read j of it has failed: the first failure rejects it
FieldAfterError(flds, i, j) ==
    IF flds[i].st = "pending" THEN Rejected(ReadError(i, j)) ELSE flds[i]

\* a reduce whose callbacks do not chain: only the last field is awaited
ReducePromiseLastOnly(flds, i) == IF i = 0 THEN Fulfilled ELSE flds[i]

\* lines 98-101: the promise the i-th callback of the reduce returns.  It awaits
\* its own field and then returns its accumulator, which from the second
\* callback on is the promise the previous callback returned.
RECURSIVE ReducePromise(_, _)
ReducePromise(flds, i) ==
    IF i = 0 THEN Fulfilled
    ELSE IF flds[i].st # "fulfilled" THEN flds[i]
    ELSE ReducePromise(flds, i - 1)

\* the callback's parameter `data` is the initial {} in the first callback and
\* a promise in the others: data[key] = ... sets a property on that promise
AccumulatorIsObject(i) == i = 1

\* the object the reduce resolves to: the initial {} with the keys set on it
ReducedFiles(entries) ==
    LET set == {i \in 1..Len(entries) : AccumulatorIsObject(i)}
    IN [k \in {entries[i].key : i \in set} |->
           transformFileIntoBase64(
               (CHOOSE e \in {entries[i] : i \in set} : e.key = k).val)]

\* lines 102-105: what getParamsWithBase64Files resolves to on an upload object
WithBase64Files(d) ==
    PlainData(Merge(Omit(d.obj, {base64Key}),
                    ReducedFiles(Own(d, base64Key).v)))

-----------------------------------------------------------------------------
(* Form-data mode, lines 108-153.                                          *)

readFile(file) == IF file.t = "file" THEN RawFile(file.v[1]) ELSE file

transformFileIntoFormDataFile(val) ==
    IF val.t = "array"
    THEN Arr([j \in 1..Len(val.v) |-> readFile(val.v[j])])
    ELSE readFile(val)

\* formData.append(key, value): what is no File is turned into a string
Appended(v) == IF v.t = "rawfile" THEN v ELSE Str(v.v)

\* lines 120-139: the <<key, value>> pairs appended for property `key`
RECURSIVE FormEntries(_, _)
FormEntries(key, val) ==
    CASE val.t \in {"undefined", "null"} -> {}
      [] val.t = "array" ->
            UNION {FormEntries(key \o "[" \o ToString(j - 1) \o "]", val.v[j]) :
                     j \in 1..Len(val.v)}
      [] val.t = "object" ->
            UNION {FormEntries(key \o "[" \o val.v[i].key \o "]", val.v[i].val) :
                     i \in 1..Len(val.v)}
      [] val.t = "file" -> {<<key \o "[rawFile]", RawFile(val.v[1])>>}
      [] OTHER -> {<<key, Appended(val)>>}

createFormData(obj) ==
    LET pairs == UNION {FormEntries(k, obj[k]) : k \in DOMAIN obj}
    IN [k \in {p[1] : p \in pairs} |-> (CHOOSE p \in pairs : p[1] = k)[2]]

\* lines 141-153
getParamsWithFileUploadFiles(d) ==
    LET fileUpload == Own(d, fileUploadKey) IN
    IF fileUpload.t = "undefined" THEN d
    ELSE LET dataPayload == Omit(d.obj, {fileUploadKey})
             files == [k \in {fileUpload.v[i].key : i \in 1..Len(fileUpload.v)} |->
                         transformFileIntoFormDataFile(
                             (CHOOSE e \in {fileUpload.v[i] : i \in 1..Len(fileUpload.v)} :
                                 e.key = k).val)]
         IN FormData(createFormData(Merge(dataPayload, files)))

\* JSON.stringify(data): undefined properties are left out, NaN becomes null
JsonStringify(obj) ==
    [k \in {k \in DOMAIN obj : obj[k].t # "undefined"} |->
        IF IsNaN(obj[k]) THEN Null ELSE obj[k]]

NoBody == [kind |-> "none", content |-> EmptyObject]

\* body: data instanceof FormData ? data : JSON.stringify(data)
BodyOf(d) ==
    IF d.form THEN [kind |-> "form", content |-> d.obj]
    ELSE [kind |-> "json", content |-> JsonStringify(d.obj)]

-----------------------------------------------------------------------------
(* Requests and responses.                                                 *)

NoSort == [field |-> "", order |-> ""]

\* what RequestQueryBuilder was given before query(); -1 is a part not set
QueryOf(search, filter, limit, page, sort, offset) ==
    [search |-> search, filter |-> filter, limit |-> limit, page |-> page,
     sort |-> sort, offset |-> offset]

NoQuery == QueryOf(<<>>, <<>>, -1, -1, NoSort, -1)

\* a response's json: the object and the request it answers
Json(k, body) == [of |-> k, body |-> body]
NoJson == Json(0, EmptyObject)

\* httpClient(`${apiUrl}/${resource}[/${id}][?${query}]`, { method, body });
\* `at` is the request's place in the order in which the requests settle
Request(method, id, query, body) ==
    [method |-> method,
     url |-> [api |-> ApiUrl, resource |-> Resource, id |-> id, query |-> query],
     body |-> body, status |-> "pending", json |-> NoJson, error |-> "",
     at |-> 0]

HttpError(k) == "request " \o ToString(k) \o " failed"

\* what a server may answer with
ServerBodies ==
    { EmptyObject,
      [k \in {"id", "title"} |-> Str(<<"server">>)],
      [k \in {"data", "total"} |-> IF k = "data" THEN Arr(<<>>) ELSE Num(<<"4", "2">>)] }

NoResult == [st |-> "none", value |-> <<>>, error |-> ""]
PendingResult == [st |-> "pending", value |-> <<>>, error |-> ""]
FulfilledWith(value) == [st |-> "fulfilled", value |-> value, error |-> ""]
RejectedWith(error) == [st |-> "rejected", value |-> <<>>, error |-> error]
\* a method that is no async function throws to its caller
ThrewTo(error) == [st |-> "threw", value |-> <<>>, error |-> error]

ManyOps == {"updateMany", "deleteMany"}

\* the .then callback of each method, on the response json
Mapped(method, json, p) ==
    CASE method \in {"getList", "getManyReference"} ->
            [data |-> Get(json.body, "data"), total |-> Get(json.body, "total")]
      [] method = "delete" ->
            [data |-> Json(json.of, Merge(json.body, [k \in {"id"} |-> Str(<<p.id>>)]))]
      [] OTHER -> [data |-> json]

\* the responses in the opposite order
ResponsesDataReversed(reqs) ==
    [data |-> [k \in 1..Len(reqs) |-> reqs[Len(reqs) + 1 - k].json]]

\* responses.map(({ json }) => json)
ResponsesData(reqs) == [data |-> [k \in 1..Len(reqs) |-> reqs[k].json]]

\* Promise.allSettled in place of Promise.all: failures do not reject
PromiseAllSettled(reqs, res, k) ==
    IF res.st # "pending" THEN res
    ELSE IF \A i \in 1..Len(reqs) : reqs[i].status # "pending"
    THEN FulfilledWith([data |-> [i \in 1..Len(reqs) |-> reqs[i].json]])
    ELSE res

\* Promise.all(requests).then(...) after request k settled: rejected by the first
\* request to fail, fulfilled when every request has succeeded
PromiseAll(reqs, res, k) ==
    IF res.st # "pending" THEN res
    ELSE IF reqs[k].status = "failed" THEN RejectedWith(reqs[k].error)
    ELSE IF \A i \in 1..Len(reqs) : reqs[i].status = "ok"
    THEN FulfilledWith(ResponsesData(reqs))
    ELSE res

\* the method's promise after request k settled
ResultAfter(method, reqs, res, k, p) ==
    IF method \in ManyOps THEN PromiseAll(reqs, res, k)
    ELSE IF res.st # "pending" THEN res
    ELSE IF reqs[k].status = "failed" THEN RejectedWith(reqs[k].error)
    ELSE FulfilledWith(Mapped(method, reqs[k].json, p))

-----------------------------------------------------------------------------
(* The params objects callers pass.  `shape` is the TypeScript type the    *)
(* object was built as; the fields a type lacks keep their value here.     *)

NoParams ==
    [shape |-> "none", id |-> "", ids |-> <<>>, data |-> PlainData(EmptyObject),
     previousData |-> EmptyObject, pagination |-> [page |-> 1, perPage |-> 1],
     sort |-> NoSort, filter |-> <<>>, target |-> ""]

Leaf(path, val) == [path |-> path, val |-> val]

ListFilters ==
    { <<>>,
      <<Leaf(<< <<"title">> >>, Str(<<"a", "b", "c">>))>>,
      <<Leaf(<< <<"title">> >>, Str(<<"a", "b", "c">>)),
        Leaf(<< <<"q">>, <<"search">> >>, Str(<<"x">>))>>,
      <<Leaf(<< <<"q">> >>, Str(<<"x">>)), Leaf(<< <<"views", "|", "|", "$", "g", "t">> >>, Num(<<"1">>))>>,
      <<Leaf(<< <<"_", "author">>, <<"name">> >>, Str(<<"1", "2">>)),
        Leaf(<< <<"id">> >>, Num(<<"3">>))>>,
      <<Leaf(<< <<"published">> >>, Bool("true"))>> }

Paginations == [page : {1, 2, 3}, perPage : {5, 10}]
Sorts == {[field |-> "title", order |-> "ASC"], [field |-> "id", order |-> "DESC"]}

RecordIds == {"7", "8"}

\* params.ids of the "many" methods
IdLists == {[k \in 1..n |-> ToString(k)] : n \in 0..MaxIds}

FieldName(i) == "file" \o ToString(i)
FileName(i, j) == "F" \o ToString(i) \o "." \o ToString(j)

\* what a field of an upload object may hold: a file, something else, an array
FieldShapes(i) ==
    { FileV(FileName(i, 1)),
      Str(<<"kept">>),
      Arr(<<FileV(FileName(i, 1)), FileV(FileName(i, 2))>>),
      Arr(<<FileV(FileName(i, 1)), Str(<<"kept">>)>>),
      Arr(<<Str(<<"kept">>), FileV(FileName(i, 2))>>) }

UploadEntries ==
    UNION {{[i \in 1..n |-> [key |-> FieldName(i), val |-> f[i]]] :
              f \in {g \in [1..n -> UNION {FieldShapes(i) : i \in 1..n}] :
                       \A i \in 1..n : g[i] \in FieldShapes(i)}} :
           n \in 0..MaxFields}

\* the upload objects of base64 mode: at most MaxReads files to read
UploadObjects ==
    {Upload(e) : e \in {e \in UploadEntries : Cardinality(ReadIds(e)) <= MaxReads}}

\* the upload objects of form-data mode
FormUploads ==
    { Upload(<<[key |-> "file1", val |-> FileV("G1")]>>),
      Upload(<<[key |-> "file1", val |-> Arr(<<FileV("G1"), Str(<<"kept">>)>>)],
               [key |-> "file2", val |-> Str(<<"kept">>)]>>) }

Titled == [k \in {"title"} |-> Str(<<"t">>)]
TitledWithFile == [k \in {"title", "file1"} |-> IF k = "title" THEN Str(<<"t">>) ELSE Str(<<"old">>)]

With(obj, k, v) == Merge(obj, [x \in {k} |-> v])

\* params.data of create and updateMany
Payloads ==
    {PlainData(o) : o \in
        {Titled, TitledWithFile}
        \cup {With(Titled, base64Key, u) : u \in UploadObjects}
        \cup {With(TitledWithFile, base64Key, u) : u \in UploadObjects}
        \cup {With(Titled, fileUploadKey, u) : u \in FormUploads}
        \cup {With(With(Titled, base64Key, Upload(<<[key |-> "file1", val |-> FileV("F1.1")]>>)),
                   fileUploadKey, u) : u \in FormUploads}}

\* params.data and params.previousData of update
TitleValues == {Str(<<"t">>), Str(<<"u">>), Num(<<"1">>), NaN, Null, Undefined}
OneFile == Upload(<<[key |-> "file1", val |-> FileV("F1.1")]>>)

UpdatedData ==
    {[k \in {"title"} |-> v] : v \in TitleValues}
    \cup {[k \in {"title", "body"} |-> IF k = "title" THEN v ELSE Str(<<"b">>)] : v \in TitleValues}
    \cup {With(Titled, base64Key, u) : u \in {OneFile, Upload(<<>>)}}
    \cup {With(Titled, fileUploadKey, u) : u \in FormUploads}

PreviousData ==
    {EmptyObject}
    \cup {[k \in {"title", "body"} |-> IF k = "title" THEN v ELSE w] :
            v \in TitleValues, w \in {Str(<<"b">>), Str(<<"c">>)}}
    \cup {With(Titled, base64Key, OneFile)}

ParamsSet ==
    {[NoParams EXCEPT !.shape = "GetListParams", !.pagination = pg, !.sort = so, !.filter = f] :
        pg \in Paginations, so \in Sorts, f \in ListFilters}
    \cup {[NoParams EXCEPT !.shape = "GetManyReferenceParams", !.pagination = pg,
             !.sort = so, !.filter = f, !.target = "author_id", !.id = id] :
        pg \in {[page |-> 2, perPage |-> 10]}, so \in Sorts, f \in ListFilters, id \in RecordIds}
    \cup {[NoParams EXCEPT !.shape = "GetOneParams", !.id = id] : id \in RecordIds}
    \cup {[NoParams EXCEPT !.shape = "GetManyParams", !.ids = ids] : ids \in IdLists}
    \cup {[NoParams EXCEPT !.shape = "CreateParams", !.data = d] : d \in Payloads}
    \cup {[NoParams EXCEPT !.shape = "UpdateParams", !.id = "7", !.data = PlainData(d),
             !.previousData = pd] : d \in UpdatedData, pd \in PreviousData}
    \cup {[NoParams EXCEPT !.shape = "UpdateManyParams", !.ids = ids, !.data = d] :
        ids \in IdLists, d \in Payloads}
    \cup {[NoParams EXCEPT !.shape = "DeleteParams", !.id = id] : id \in RecordIds}
    \cup {[NoParams EXCEPT !.shape = "DeleteManyParams", !.ids = ids] : ids \in IdLists}

\* the params objects of the calls that follow the first
FollowUps ==
    { [NoParams EXCEPT !.shape = "GetListParams", !.pagination = [page |-> 2, perPage |-> 10],
         !.sort = [field |-> "title", order |-> "ASC"],
         !.filter = <<Leaf(<< <<"title">> >>, Str(<<"a", "b", "c">>))>>],
      [NoParams EXCEPT !.shape = "CreateParams",
         !.data = PlainData(With(Titled, base64Key, OneFile))],
      [NoParams EXCEPT !.shape = "UpdateManyParams", !.ids = <<"1">>,
         !.data = PlainData(With(Titled, fileUploadKey,
                                 Upload(<<[key |-> "file1", val |-> FileV("G1")]>>)))],
      [NoParams EXCEPT !.shape = "DeleteManyParams", !.ids = <<"1">>] }

-----------------------------------------------------------------------------
(* The provider's methods.                                                 *)

Idle ==
    /\ op = "none" /\ pc = "idle"
    /\ given = PlainData(EmptyObject) /\ data = PlainData(EmptyObject)
    /\ reads = <<>> /\ fields = <<>> /\ requests = <<>> /\ result = NoResult

\* lines 162, 208: const { q: queryParams, ...filter } = params.filter || {}
IsQ(leaf) == leaf.path[1] = <<"q">>
NotQ(leaf) == ~IsQ(leaf)
WithoutQ(leaves) == SelectSeq(leaves, NotQ)

\* q's own leaves; a q that is no object has none
UnderQ(leaf) == IsQ(leaf) /\ Len(leaf.path) >= 2
QueryParams(leaves) ==
    LET under == SelectSeq(leaves, UnderQ)
    IN [i \in 1..Len(under) |-> Leaf(Tail(under[i].path), under[i].val)]

\* lines 65-67: the key=value pairs stringify encodes
composeQueryParams(leaves) == FlattenObject(QueryParams(leaves))

\* httpClient(...) of a method that issues one request
IssueOne(request) ==
    /\ requests' = <<request>>
    /\ pc' = "http"
    /\ result' = PendingResult

\* lines 160-182
getList ==
    /\ pc = "idle" /\ params.shape = "GetListParams"
    /\ op' = "getList"
    /\ LET page == params.pagination.page
           perPage == params.pagination.perPage
           composed == composeFilter(WithoutQ(params.filter))
       IN IF composed.ok
          THEN IssueOne(Request("GET", "",
                   QueryOf(composeQueryParams(params.filter), composed.conds,
                           perPage, page, params.sort, (page - 1) * perPage),
                   NoBody))
          ELSE /\ requests' = <<>>
               /\ pc' = "done"
               /\ result' = ThrewTo(composed.error)
    /\ UNCHANGED <<params, supplied, given, data, reads, fields, filterVars>>

\* lines 184-190
getOne ==
    /\ pc = "idle" /\ params.shape = "GetOneParams"
    /\ op' = "getOne"
    /\ IssueOne(Request("GET", params.id, NoQuery, NoBody))
    /\ UNCHANGED <<params, supplied, given, data, reads, fields, filterVars>>

\* `${params.ids}`: the ids joined with ","
RECURSIVE IdsString(_)
IdsString(ids) ==
    IF ids = <<>> THEN <<>>
    ELSE IF Len(ids) = 1 THEN <<ids[1]>>
    ELSE <<ids[1], ",">> \o IdsString(Tail(ids))

\* lines 192-204
getMany ==
    /\ pc = "idle" /\ params.shape = "GetManyParams"
    /\ op' = "getMany"
    /\ IssueOne(Request("GET", "",
           QueryOf(<<>>, <<[field |-> Str(<<"id">>), operator |-> CondIn,
                            value |-> Str(IdsString(params.ids))]>>,
                   -1, -1, NoSort, -1),
           NoBody))
    /\ UNCHANGED <<params, supplied, given, data, reads, fields, filterVars>>

\* lines 206-234
getManyReference ==
    /\ pc = "idle" /\ params.shape = "GetManyReferenceParams"
    /\ op' = "getManyReference"
    /\ LET page == params.pagination.page
           perPage == params.pagination.perPage
           composed == composeFilter(WithoutQ(params.filter))
           filter == Append(composed.conds,
                            [field |-> Str(<<params.target>>), operator |-> CondEquals,
                             value |-> Str(<<params.id>>)])
       IN IF composed.ok
          THEN IssueOne(Request("GET", "",
                   QueryOf(composeQueryParams(params.filter), filter,
                           perPage, -1, params.sort, (page - 1) * perPage),
                   NoBody))
          ELSE /\ requests' = <<>>
               /\ pc' = "done"
               /\ result' = ThrewTo(composed.error)
    /\ UNCHANGED <<params, supplied, given, data, reads, fields, filterVars>>

\* the requests of create, update and updateMany, with the body given
WriteRequests(method, body) ==
    CASE method = "update" -> <<Request("PATCH", params.id, NoQuery, body)>>
      [] method = "create" -> <<Request("POST", "", NoQuery, body)>>
      [] method = "updateMany" ->
            [k \in 1..Len(params.ids) |-> Request("PUT", params.ids[k], NoQuery, body)]

\* Promise.all(params.ids.map(...)): every request is issued before any answer
\* is looked at; Promise.all of no promise is fulfilled at once
FanOut(reqs) ==
    /\ requests' = reqs
    /\ IF reqs = <<>>
       THEN pc' = "done" /\ result' = FulfilledWith(ResponsesData(reqs))
       ELSE pc' = "http" /\ result' = PendingResult

\* whether the method assigns the transformed payload to params.data
AssignsParams(method) == method \in {"create", "updateMany"}

\* lines 240-244, 249-259, 264-268: what follows getParamsWithBase64Files
\* resolving to d
AfterBase64(method, d) ==
    LET payload == getParamsWithFileUploadFiles(d) IN
    /\ data' = payload
    /\ params' = IF AssignsParams(method) THEN [params EXCEPT !.data = payload] ELSE params
    /\ FanOut(WriteRequests(method, BodyOf(payload)))

\* lines 93-101: getParamsWithBase64Files on d; the reads it starts suspend the
\* method, and without any it goes on in the same turn of the event loop
Transform(method, d) ==
    LET base64 == Own(d, base64Key) IN
    /\ given' = d
    /\ IF base64.t = "undefined"
       THEN /\ AfterBase64(method, d)
            /\ UNCHANGED <<reads, fields>>
       ELSE /\ reads' = [id \in ReadIds(base64.v) |-> "pending"]
            /\ fields' = StartFields(base64.v)
            /\ IF ReadIds(base64.v) = {}
               THEN AfterBase64(method, WithBase64Files(d))
               ELSE /\ data' = d
                    /\ pc' = "base64"
                    /\ requests' = <<>>
                    /\ result' = PendingResult
                    /\ UNCHANGED params

\* lines 236-245
update ==
    /\ pc = "idle" /\ params.shape = "UpdateParams"
    /\ op' = "update"
    /\ Transform("update", PlainData(countDiff(params.data.obj, params.previousData)))
    /\ UNCHANGED <<supplied, filterVars>>

\* lines 247-260
updateMany ==
    /\ pc = "idle" /\ params.shape = "UpdateManyParams"
    /\ op' = "updateMany"
    /\ Transform("updateMany", params.data)
    /\ UNCHANGED <<supplied, filterVars>>

\* lines 262-269
create ==
    /\ pc = "idle" /\ params.shape = "CreateParams"
    /\ op' = "create"
    /\ Transform("create", params.data)
    /\ UNCHANGED <<supplied, filterVars>>

\* lines 271-275
delete ==
    /\ pc = "idle" /\ params.shape = "DeleteParams"
    /\ op' = "delete"
    /\ IssueOne(Request("DELETE", params.id, NoQuery, NoBody))
    /\ UNCHANGED <<params, supplied, given, data, reads, fields, filterVars>>

\* lines 277-285
deleteMany ==
    /\ pc = "idle" /\ params.shape = "DeleteManyParams"
    /\ op' = "deleteMany"
    /\ FanOut([k \in 1..Len(params.ids) |->
                  Request("DELETE", params.ids[k], NoQuery, NoBody)])
    /\ UNCHANGED <<params, supplied, given, data, reads, fields, filterVars>>

\* the call is over for the caller
BecomesIdle ==
    /\ op' = "none" /\ pc' = "idle"
    /\ given' = PlainData(EmptyObject) /\ data' = PlainData(EmptyObject)
    /\ reads' = <<>> /\ fields' = <<>> /\ requests' = <<>> /\ result' = NoResult

-----------------------------------------------------------------------------
(* What the event loop delivers.                                           *)

\* the method goes on after a read settled, lines 98-105
AfterRead(flds) ==
    LET reduced == ReducePromise(flds, Len(flds)) IN
    IF pc # "base64" \/ reduced.st = "pending"
    THEN UNCHANGED <<params, data, pc, requests, result>>
    ELSE IF reduced.st = "rejected"
    THEN /\ pc' = "done"
         /\ result' = RejectedWith(reduced.err)
         /\ UNCHANGED <<params, data, requests>>
    ELSE AfterBase64(op, WithBase64Files(given))

\* reader.onload, line 78
FileLoaded(i, j) ==
    /\ <<i, j>> \in DOMAIN reads /\ reads[<<i, j>>] = "pending"
    /\ reads' = [reads EXCEPT ![<<i, j>>] = "ok"]
    /\ fields' = [fields EXCEPT ![i] =
                     FieldAfterLoad(Own(given, base64Key).v, fields, reads', i)]
    /\ AfterRead(fields')
    /\ UNCHANGED <<op, supplied, given, filterVars>>

\* reader.onerror, line 79
FileFailed(i, j) ==
    /\ <<i, j>> \in DOMAIN reads /\ reads[<<i, j>>] = "pending"
    /\ reads' = [reads EXCEPT ![<<i, j>>] = "failed"]
    /\ fields' = [fields EXCEPT ![i] = FieldAfterError(fields, i, j)]
    /\ AfterRead(fields')
    /\ UNCHANGED <<op, supplied, given, filterVars>>

\* the settling of request k
Settled(reqs, k) ==
    /\ requests' = [reqs EXCEPT ![k].at =
                        Cardinality({i \in 1..Len(reqs) : reqs[i].status # "pending"})]
    /\ result' = ResultAfter(op, requests', result, k, params)
    /\ pc' = IF result'.st = "pending" THEN pc ELSE "done"
    /\ UNCHANGED <<op, params, supplied, given, data, reads, fields, filterVars>>

\* httpClient's promise for request k is fulfilled
HttpResponse(k, body) ==
    /\ k \in 1..Len(requests) /\ requests[k].status = "pending"
    /\ Settled([requests EXCEPT ![k].status = "ok", ![k].json = Json(k, body)], k)

\* httpClient's promise for request k is rejected
HttpFailure(k) ==
    /\ k \in 1..Len(requests) /\ requests[k].status = "pending"
    /\ Settled([requests EXCEPT ![k].status = "failed", ![k].error = HttpError(k)], k)

\* the caller, done with a call, goes on with the params object it holds
CallerReuses ==
    /\ pc = "done"
    /\ BecomesIdle
    /\ UNCHANGED <<params, supplied, filterVars>>

\* the caller builds a params object for its next call
CallerSupplies ==
    /\ pc = "done"
    /\ BecomesIdle
    /\ params' \in FollowUps
    /\ supplied' = params'
    /\ UNCHANGED filterVars

Init ==
    /\ params \in ParamsSet
    /\ supplied = params
    /\ Idle
    /\ paramsFilter = <<>> /\ filterOut = NotRun

Next ==
    \/ getList \/ getOne \/ getMany \/ getManyReference
    \/ create \/ update \/ updateMany \/ delete \/ deleteMany
    \/ \E id \in DOMAIN reads : FileLoaded(id[1], id[2])
    \/ \E id \in DOMAIN reads : FileFailed(id[1], id[2])
    \/ \E k \in 1..Len(requests), body \in ServerBodies : HttpResponse(k, body)
    \/ \E k \in 1..Len(requests) : HttpFailure(k)
    \/ CallerReuses
    \/ CallerSupplies

Spec == Init /\ [][Next]_vars

\* composeFilter on its own
InitComposeFilter ==
    /\ InitFilter
    /\ params = NoParams /\ supplied = NoParams /\ Idle

NextComposeFilter ==
    \/ ComposeFilterCall /\ UNCHANGED callVars
    \/ ComposeFilterNext /\ UNCHANGED callVars

SpecComposeFilter == InitComposeFilter /\ [][NextComposeFilter]_vars

-----------------------------------------------------------------------------
(* Properties.                                                             *)

WriteOps == {"create", "update", "updateMany"}

\* the keys of params.data whose value is not === that of params.previousData
ChangedKeys ==
    {k \in DOMAIN params.data.obj :
        ~StrictEq(Get(params.previousData, k), params.data.obj[k])}

ReservedKeys == {base64Key, fileUploadKey}

\* C1 as stated: the body of update's PATCH request holds exactly the keys of
\* params.data whose value differs from that of params.previousData, whatever
\* the payload carries.
C1_BodyIsChangedKeys ==
    (op = "update" /\ requests # <<>>) =>
        /\ Len(requests) = 1
        /\ requests[1].method = "PATCH"
        /\ DOMAIN requests[1].body.content = ChangedKeys

\* C1 amended: when no reserved upload key is among the changed keys, the body
\* of update's single PATCH request is JSON and holds exactly the keys of
\* params.data whose value differs (!==) from that of params.previousData and
\* is not undefined.
C1_BodyIsDefinedChangedKeys ==
    (op = "update" /\ requests # <<>> /\ ChangedKeys \cap ReservedKeys = {}) =>
        /\ Len(requests) = 1
        /\ requests[1].method = "PATCH"
        /\ requests[1].url.id = params.id
        /\ requests[1].body.kind = "json"
        /\ DOMAIN requests[1].body.content =
              {k \in ChangedKeys : params.data.obj[k].t # "undefined"}

\* an update whose payload has a changed key that is sent and an unchanged key
\* that is not
C1_Witness ==
    /\ op = "update" /\ requests # <<>>
    /\ ChangedKeys \cap ReservedKeys = {}
    /\ DOMAIN requests[1].body.content # {}
    /\ DOMAIN params.data.obj \ ChangedKeys # {}

\* C2: updateMany and deleteMany issue the requests of all ids at once, one per
\* id in the order of params.ids, and are fulfilled only when every request
\* has been answered, with the k-th element of data the json of the answer to
\* the k-th request, in whatever order the answers came.
C2_FanOutAndJoin ==
    op \in ManyOps =>
        /\ requests # <<>> =>
              /\ Len(requests) = Len(params.ids)
              /\ \A k \in 1..Len(requests) :
                    /\ requests[k].url.id = params.ids[k]
                    /\ requests[k].method = IF op = "deleteMany" THEN "DELETE" ELSE "PUT"
        /\ result.st = "fulfilled" =>
              /\ Len(requests) = Len(params.ids)
              /\ \A k \in 1..Len(requests) : requests[k].status = "ok"
              /\ Len(result.value.data) = Len(params.ids)
              /\ \A k \in 1..Len(requests) :
                    /\ result.value.data[k] = requests[k].json
                    /\ result.value.data[k].of = k

\* a "many" call fulfilled although its first request was answered last
C2_Witness ==
    /\ op \in ManyOps /\ result.st = "fulfilled"
    /\ Len(requests) >= 2
    /\ requests[1].at = Len(requests)
    /\ requests[1].json.body # requests[2].json.body

\* the requests that failed
FailedRequests == {k \in 1..Len(requests) : requests[k].status = "failed"}

\* the request that failed first
FirstFailed ==
    CHOOSE k \in FailedRequests : \A j \in FailedRequests : requests[k].at <= requests[j].at

\* no result with data of some ids only, and no request issued again
C3_NoPartialNoRetry ==
    /\ Len(requests) <= Len(params.ids)
    /\ result.st = "fulfilled" => FailedRequests = {}

\* C3 as stated: when a request of updateMany or deleteMany fails, the call is
\* rejected with that request's failure, never fulfilled, and nothing is
\* issued again.
C3_RejectedWithThatFailure ==
    op \in ManyOps =>
        /\ C3_NoPartialNoRetry
        /\ \A k \in FailedRequests :
              result.st = "rejected" /\ result.error = requests[k].error

\* C3 amended: when requests of updateMany or deleteMany fail, the call is
\* rejected with the failure of the one that failed first, never fulfilled,
\* and nothing is issued again.
C3_RejectedWithFirstFailure ==
    op \in ManyOps =>
        /\ C3_NoPartialNoRetry
        /\ FailedRequests # {} =>
              result.st = "rejected" /\ result.error = requests[FirstFailed].error

\* a "many" call with an answered request and two failed ones
C3_Witness ==
    /\ op \in ManyOps
    /\ Cardinality(FailedRequests) >= 2
    /\ result.st = "rejected"

\* the flattened keys of the filter composeFilter was given
FlatKeys == FlattenObject(paramsFilter)

\* a key with no "||" in it
NoOperatorSuffix(key) == ~Includes(key, <<"|", "|">>)

\* a number, or a string of digits only
LooksNumeric(val) ==
    \/ val.t = "number"
    \/ val.t = "string" /\ val.v # <<>> /\ \A i \in 1..Len(val.v) : val.v[i] \in Digits

\* C4: composeFilter yields one condition per flattened key, and for a key
\* without operator suffix the condition has the equality operator when the
\* value is a number or a string of digits and the containment operator for
\* every other value, strings or not.
C4_OperatorInference ==
    filterOut # NotRun =>
        /\ filterOut.ok
        /\ Len(filterOut.conds) = Len(FlatKeys)
        /\ \A i \in 1..Len(FlatKeys) :
              NoOperatorSuffix(FlatKeys[i].key) =>
                 filterOut.conds[i].operator =
                    IF LooksNumeric(FlatKeys[i].val) THEN CondEquals ELSE CondContains

\* the key with what follows its first "||" removed
WithoutOperator(key) ==
    LET i == IndexOf(key, <<"|", "|">>, 1)
    IN IF i = 0 THEN key ELSE SubSeq(key, 1, i - 1)

\* the field name of a leaf: its dotted path without the operator suffix, and
\* without its first segment when it starts with "_" and has several
ExpectedField(path) ==
    LET named == WithoutOperator(Join(path, <<".">>))
        segments == Split(named, <<".">>)
    IN IF named # <<>> /\ named[1] = "_" /\ Len(segments) >= 2
       THEN Join(Tail(segments), <<".">>)
       ELSE named

GivenUpload == Own(given, base64Key)

\* what base64 mode is to return for the payload given: every field of the
\* upload object under its name, files as data URLs, the rest kept
ExpectedValue(val) ==
    IF val.t = "array"
    THEN Arr([j \in 1..Len(val.v) |->
                 IF val.v[j].t = "file" THEN DataUrl(val.v[j].v[1]) ELSE val.v[j]])
    ELSE IF val.t = "file" THEN DataUrl(val.v[1]) ELSE val

ExpectedPayload ==
    LET entries == GivenUpload.v
        names == {entries[i].key : i \in 1..Len(entries)}
    IN [k \in (DOMAIN given.obj \ {base64Key}) \cup names |->
           IF k \in names
           THEN ExpectedValue((CHOOSE e \in {entries[i] : i \in 1..Len(entries)} : e.key = k).val)
           ELSE given.obj[k]]

\* the reads of the call are over and none failed
ReadsDone == pc \in {"http", "done"} /\ \A id \in DOMAIN reads : reads[id] = "ok"

\* C5: in base64 mode the transformer returns the payload with every field of
\* the upload object under its own name, each file replaced by its data URL,
\* arrays in their order, other values and other fields unchanged, and
\* without the reserved key.
C5_Base64Merged ==
    (op \in WriteOps /\ GivenUpload.t = "object" /\ ReadsDone
       /\ Own(given, fileUploadKey).t = "undefined") =>
        /\ ~data.form
        /\ data.obj = ExpectedPayload

\* C6: delete and deleteMany return, for each id, the server's json with the
\* id passed merged in, also when the body is empty.
C6_DeleteMergesId ==
    /\ (op = "delete" /\ result.st = "fulfilled") =>
          result.value.data.body =
             Merge(requests[1].json.body, [k \in {"id"} |-> Str(<<params.id>>)])
    /\ (op = "deleteMany" /\ result.st = "fulfilled") =>
          \A k \in 1..Len(params.ids) :
             result.value.data[k].body =
                Merge(requests[k].json.body, [x \in {"id"} |-> Str(<<params.ids[k]>>)])

\* the top-level keys of params.filter other than q, flattened
FilterKeysButQ ==
    FlattenObject(SelectSeq(params.filter, LAMBDA l : l.path[1] # <<"q">>))

\* C7: getList issues exactly one GET to <apiUrl>/<resource> with limit
\* perPage, offset (page - 1) * perPage, the sort given and one condition per
\* flattened filter key other than q, and is fulfilled with the data and the
\* total of the response.
C7_GetListRequest ==
    op = "getList" =>
        /\ Len(requests) = 1
        /\ requests[1].method = "GET"
        /\ requests[1].url.api = ApiUrl /\ requests[1].url.resource = Resource
        /\ requests[1].url.id = ""
        /\ requests[1].url.query.limit = params.pagination.perPage
        /\ requests[1].url.query.offset =
              (params.pagination.page - 1) * params.pagination.perPage
        /\ requests[1].url.query.sort = params.sort
        /\ Len(requests[1].url.query.filter) = Len(FilterKeysButQ)
        /\ result.st = "fulfilled" =>
              result.value = [data |-> Get(requests[1].json.body, "data"),
                              total |-> Get(requests[1].json.body, "total")]

\* the reads that failed
FailedReads == {id \in DOMAIN reads : reads[id] = "failed"}

\* no request before every read has loaded, none at all after a failed read
C9_ReadsBeforeRequests ==
    /\ requests # <<>> => \A id \in DOMAIN reads : reads[id] = "ok"
    /\ FailedReads # {} => requests = <<>> /\ result.st # "fulfilled"
    /\ pc = "base64" => \E id \in DOMAIN reads : reads[id] = "pending"

\* C9 as stated: create, update and updateMany issue no request before every
\* read has completed; after a failed read they issue none and end rejected
\* with that read's failure.
C9_RejectedWithThatReadFailure ==
    op \in WriteOps =>
        /\ C9_ReadsBeforeRequests
        /\ pc = "done" =>
              \A id \in FailedReads :
                 result.st = "rejected" /\ result.error = ReadError(id[1], id[2])

\* the last upload field with a failed read
LastRejectedField == CHOOSE i \in {id[1] : id \in FailedReads} :
                        \A id \in FailedReads : id[1] <= i

\* C9 amended: create, update and updateMany issue no request before every
\* read has completed; after failed reads they issue none and end rejected
\* with the failure of one of them: the first to fail in the last upload
\* field that has one.
C9_RejectedWithAReadFailure ==
    op \in WriteOps =>
        /\ C9_ReadsBeforeRequests
        /\ (pc = "done" /\ FailedReads # {}) =>
              /\ result.st = "rejected"
              /\ result.error = fields[LastRejectedField].err
              /\ \E id \in FailedReads : result.error = ReadError(id[1], id[2])

\* a call that ended rejected after reads failed in two upload fields
C9_Witness ==
    /\ op \in WriteOps /\ pc = "done"
    /\ \E a, b \in FailedReads : a[1] # b[1]
    /\ result.st = "rejected"
    /\ requests = <<>>

\* C10: no call changes the params object the caller passed.
C10_ParamsUnchanged == params = supplied

====
